---------------------------- MODULE Spec2Model ----------------------------
(***************************************************************************)
(* A model of the horizontal timeline render pass of                        *)
(* obsidian-timelines-extended: buildHorizontalTimeline (item assembly,     *)
(* viewport selection, viewport sanitizing, Timeline construction and its   *)
(* fallback) together with buildTimelineDate and validateTimelineType, and  *)
(* of parseSimplifiedDate and setDefaultArgs, which are also called on      *)
(* their own.                                                               *)
(*                                                                         *)
(* Time.  A JavaScript Date reference is modelled as [k, t]: k = "null" is  *)
(* null, k = "invalid" the Invalid Date (time value NaN), and for           *)
(* k = "date" t is the time value in HOURS since 1970-01-01T00:00, in a     *)
(* host whose local time zone is UTC.  Every                                *)
(* Date this code builds is made of year, month, day and hour, and every    *)
(* duration it adds is a whole number of days, so hours lose nothing.       *)
(*                                                                         *)
(* Numbers.  The zoom limits are IEEE doubles.  They are modelled in        *)
(* decimal scientific notation, [k, s, d, e]: k is "nan", "inf" or "fin",   *)
(* s the sign (-1, 0, 1), and for a finite non-zero value d is the sequence *)
(* of significant decimal digits (no trailing zero) and e the exponent:     *)
(* the value is 0.d1d2d3... * 10^e.  A product beyond the largest double    *)
(* is Infinity, as in IEEE arithmetic.                                      *)
(***************************************************************************)
EXTENDS Integers, Sequences, FiniteSets, TLC

VARIABLES
  pc,           \* position in the render pass
  currentYear,  \* new Date().getFullYear() of this pass
  args,         \* args.startDate/endDate/minDate/maxDate/zoomInLimit/zoomOutLimit
  items,        \* the DataSet `items` (the render set), in insertion order
  event,        \* the event handled by the last step of the forEach, or NoEvent
  options,      \* the `options` object (start, end, min, max, zoomMin, zoomMax)
  smart,        \* how the viewport was selected: "none", "explicit", "smart", "null"
  calls,        \* every call of the Timeline constructor, in order
  pass1,        \* the options after the first sanitizer pass (re-application harness)
  call,         \* the function called on its own and its arguments, or NoCall
  ret,          \* what that call returned, or NoReturn
  groups,       \* the `groups` array of the render pass
  notice,       \* the message the pass put into timelineDiv, or NoNotice
  clock,        \* the time of the host, in ms since the state began
  timers,       \* the setTimeout callbacks not yet run, in the order they were set
  page,         \* the timeline elements of the document the health check looks at
  checks,       \* TimelineHealthChecker.checks
  consoleWarn,  \* the function console.warn is bound to
  closures,     \* the closures checkForInfiniteLoop created, one per call
  emitted       \* the warnings passed to console.warn, in order

vars == <<pc, currentYear, args, items, event, options, smart, calls, pass1, call, ret,
         groups, notice, clock, timers, page, checks, consoleWarn, closures, emitted>>

-----------------------------------------------------------------------------
(* Calendar arithmetic of the host (proleptic Gregorian, astronomical years) *)

\* days from 1970-01-01 to the first day of month m0 (0-indexed) of year y
DaysFromCivil(y, m0) ==
  LET m   == m0 + 1
      yy  == IF m <= 2 THEN y - 1 ELSE y
      era == yy \div 400
      yoe == yy - era * 400
      mp  == IF m > 2 THEN m - 3 ELSE m + 9
      doy == (153 * mp + 2) \div 5
      doe == yoe * 365 + yoe \div 4 - yoe \div 100 + doy
  IN  era * 146097 + doe - 719468

\* Date.prototype.getFullYear of a valid time value t (hours)
YearOf(t) ==
  LET z   == (t \div 24) + 719468
      era == z \div 146097
      doe == z - era * 146097
      yoe == (doe - doe \div 1460 + doe \div 36524 - doe \div 146096) \div 365
      doy == doe - (365 * yoe + yoe \div 4 - yoe \div 100)
      mp  == (5 * doy + 2) \div 153
      m   == IF mp < 10 THEN mp + 3 ELSE mp - 9
  IN  yoe + era * 400 + (IF m <= 2 THEN 1 ELSE 0)

IsLeap(y) == (y % 4 = 0 /\ y % 100 # 0) \/ y % 400 = 0

DaysInMonth(y, m0) ==
  IF m0 = 1 THEN (IF IsLeap(y) THEN 29 ELSE 28)
  ELSE IF m0 \in {3, 5, 8, 10} THEN 30 ELSE 31

\* a Date reference: null, the Invalid Date, or a Date with time value t
NullDate == [k |-> "null", t |-> 0]
InvalidDate == [k |-> "invalid", t |-> 0]

\* new Date( ms ) of a finite time value
DateOfTime(t) == [k |-> "date", t |-> t]

\* !isNaN( date.getTime() ) of a non-null Date
IsValid(date) == date.k = "date"

\* the truthiness of a Date reference: every object is truthy, null is not
IsSet(date) == date.k # "null"

\* the largest year the model builds a time value for; a Date holds at most
\* 8.64e15 ms, which ends in year 275760
MaxDateYear == 275760

\* new Date( year, month, day, hour ): day and hour beyond their unit roll over
NewDate(y, m0, d, h) ==
  IF y > MaxDateYear \/ y < -MaxDateYear THEN InvalidDate
  ELSE DateOfTime((DaysFromCivil(y, m0) + d - 1) * 24 + h)

\* date.getTime() + delta as a new Date
DatePlus(date, delta) ==
  IF IsValid(date) THEN DateOfTime(date.t + delta) ELSE InvalidDate

\* a >= b and a < b on Dates: any comparison with NaN is false
DateGE(a, b) == IsValid(a) /\ IsValid(b) /\ a.t >= b.t
DateLT(a, b) == IsValid(a) /\ IsValid(b) /\ a.t < b.t
DateLE(a, b) == IsValid(a) /\ IsValid(b) /\ a.t <= b.t

-----------------------------------------------------------------------------
(* IEEE doubles in decimal scientific notation                              *)

NaNNum == [k |-> "nan", s |-> 0, d |-> <<>>, e |-> 0]
InfNum(s) == [k |-> "inf", s |-> s, d |-> <<>>, e |-> 0]
ZeroNum == [k |-> "fin", s |-> 0, d |-> <<>>, e |-> 0]
FinNum(s, d, e) == [k |-> "fin", s |-> s, d |-> d, e |-> e]

\* digit sequences compared as decimal fractions 0.d1d2...
DigitsLess(a, b) ==
  \/ \E i \in 1..Len(a) :
        /\ i <= Len(b)
        /\ a[i] < b[i]
        /\ \A j \in 1..(i - 1) : a[j] = b[j]
  \/ /\ Len(a) < Len(b)
     /\ \A j \in 1..Len(a) : a[j] = b[j]

\* Number.MAX_VALUE = 1.7976931348623157e308
MaxValueDigits == <<1, 7, 9, 7, 6, 9, 3, 1, 3, 4, 8, 6, 2, 3, 1, 5, 7>>
MaxValueExp == 309

\* |x| < |y| for finite non-zero x, y
MagLess(x, y) == x.e < y.e \/ (x.e = y.e /\ DigitsLess(x.d, y.d))

\* x < y on doubles (false when either is NaN)
NumLess(x, y) ==
  /\ x.k # "nan" /\ y.k # "nan"
  /\ IF x.k = "inf" THEN x.s < 0 /\ ~(y.k = "inf" /\ y.s < 0)
     ELSE IF y.k = "inf" THEN y.s > 0
     ELSE IF x.s # y.s THEN x.s < y.s
     ELSE IF x.s = 0 THEN FALSE
     ELSE IF x.s > 0 THEN MagLess(x, y) ELSE MagLess(y, x)

NumEq(x, y) == x.k # "nan" /\ y.k # "nan" /\ x = y
NumGE(x, y) == x.k # "nan" /\ y.k # "nan" /\ ~NumLess(x, y)
NumLE(x, y) == NumLess(x, y) \/ NumEq(x, y)

\* isFinite( x )
IsFiniteNum(x) == x.k = "fin"

\* x * 1000
Times1000(x) ==
  IF x.k # "fin" \/ x.s = 0 THEN x
  ELSE LET r == FinNum(x.s, x.d, x.e + 3)
           top == FinNum(1, MaxValueDigits, MaxValueExp)
       IN  IF MagLess(top, r) THEN InfNum(x.s) ELSE r

-----------------------------------------------------------------------------
(* The viewport sanitizer of buildHorizontalTimeline                        *)

\* 365 * 24 * 60 * 60 * 1000 ms, in hours
OneYear == 8760

MinSafeYear == 1900
MaxSafeYear == 2100

\* a slip: min falls back to the date of end and max
FallbackDateMinAsMax(field) ==
  IF field = "start" THEN NewDate(2000, 0, 1, 0) ELSE NewDate(2030, 0, 1, 0)

\* new Date( 2000, 0, 1 ) for start and min, new Date( 2030, 0, 1 ) for end and max
FallbackDate(field) ==
  IF field \in {"start", "min"} THEN NewDate(2000, 0, 1, 0) ELSE NewDate(2030, 0, 1, 0)

\* a slip: the finiteness test is missing, only the year test is made
ValidateDateFieldYearOnly(field, date) ==
  IF ~IsSet(date) \/ ~IsValid(date) THEN date
  ELSE IF YearOf(date.t) < MinSafeYear \/ YearOf(date.t) > MaxSafeYear
       THEN FallbackDate(field)
       ELSE date

\* one round of the loop over dateFields: the finiteness test and the extreme-year
\* test both read `date`, the value the field had when the round began
\* (getFullYear of the Invalid Date is NaN, which passes the year test); a null
\* field is skipped
ValidateDateField(field, date) ==
  IF ~IsSet(date) THEN date
  ELSE IF ~IsValid(date) THEN FallbackDate(field)
  ELSE IF YearOf(date.t) < MinSafeYear \/ YearOf(date.t) > MaxSafeYear
       THEN FallbackDate(field)
       ELSE date

ValidateDateFields(o) ==
  [o EXCEPT !.start = ValidateDateField("start", o.start),
            !.end   = ValidateDateField("end", o.end),
            !.min   = ValidateDateField("min", o.min),
            !.max   = ValidateDateField("max", o.max)]

\* a slip: the repaired end is the start itself, the year is not added
OrderStartEndNoYear(o) ==
  IF IsSet(o.start) /\ IsSet(o.end) /\ DateGE(o.start, o.end)
    THEN [o EXCEPT !.end = o.start]
    ELSE o

\* a slip: the year is added to the old end, not to the start
OrderStartEndFromEnd(o) ==
  IF IsSet(o.start) /\ IsSet(o.end) /\ DateGE(o.start, o.end)
    THEN [o EXCEPT !.end = DatePlus(o.end, OneYear)]
    ELSE o

\* if start >= end, end := start + 1 year
OrderStartEnd(o) ==
  IF IsSet(o.start) /\ IsSet(o.end) /\ DateGE(o.start, o.end)
    THEN [o EXCEPT !.end = DatePlus(o.start, OneYear)]
    ELSE o

\* if min >= max, min := max - 10 years
OrderMinMax(o) ==
  IF IsSet(o.min) /\ IsSet(o.max) /\ DateGE(o.min, o.max)
    THEN [o EXCEPT !.min = DatePlus(o.max, -(10 * OneYear))]
    ELSE o

\* a slip: the test for a span over 100 years is missing
ConstrainSpanNoUpper(o) ==
  IF ~(IsSet(o.min) /\ IsSet(o.max)) THEN o
  ELSE IF ~(IsValid(o.min) /\ IsValid(o.max)) THEN o
  ELSE IF o.max.t - o.min.t < OneYear
         THEN [o EXCEPT !.min = DatePlus(o.max, -(10 * OneYear))]
         ELSE o

\* timeDiff is read once; both tests use it
ConstrainSpan(o) ==
  IF ~(IsSet(o.min) /\ IsSet(o.max)) THEN o
  ELSE IF ~(IsValid(o.min) /\ IsValid(o.max)) THEN o   \* timeDiff is NaN
  ELSE LET timeDiff == o.max.t - o.min.t
       IN  IF timeDiff < OneYear
             THEN [o EXCEPT !.min = DatePlus(o.max, -(10 * OneYear))]
           ELSE IF timeDiff > 100 * OneYear
             THEN [o EXCEPT !.min = DatePlus(o.max, -(50 * OneYear))]
           ELSE o

\* 315360000000000 and 10
DefaultZoomMax == FinNum(1, <<3, 1, 5, 3, 6>>, 15)
DefaultZoomMin == FinNum(1, <<1>>, 2)

InvalidZoom(z) == ~IsFiniteNum(z) \/ NumLE(z, ZeroNum)

ValidateZoomLimits(o) ==
  LET o1 == IF InvalidZoom(o.zoomMax) THEN [o EXCEPT !.zoomMax = DefaultZoomMax] ELSE o
      o2 == IF InvalidZoom(o1.zoomMin) THEN [o1 EXCEPT !.zoomMin = DefaultZoomMin] ELSE o1
  IN  IF NumGE(o2.zoomMin, o2.zoomMax)
        THEN [o2 EXCEPT !.zoomMax = Times1000(o2.zoomMin)]
        ELSE o2

\* lines 317-388, in the order of the code
SanitizeViewport(o) ==
  ValidateZoomLimits(ConstrainSpan(OrderMinMax(OrderStartEnd(ValidateDateFields(o)))))

-----------------------------------------------------------------------------
(* buildTimelineDate and validateTimelineType (utils/dates.ts)              *)

\* a CleanedDateResultObject reference: null, or the components with the
\* normalized string; month is 0-indexed
NullComponents == [k |-> "null", year |-> 0, month |-> 0, day |-> 0, hour |-> 0,
                   normalizedDateString |-> ""]
Components(y, m0, d, h, norm) ==
  [k |-> "components", year |-> y, month |-> m0, day |-> d, hour |-> h,
   normalizedDateString |-> norm]

\* years 1..1900 are built by LuxonDateTime.fromFormat( 'YYYY-MM-DD-HH', 'y-M-d-H' ):
\* luxon rejects a day the month does not have, toISO() is then null
MaxLuxonYear == 1900

LuxonFromFormat(y, m0, d, h) ==
  IF d > DaysInMonth(y, m0) THEN NullDate ELSE NewDate(y, m0, d, h)

\* a slip: the hour is not range-checked
buildTimelineDateNoHourCheck(dateResult) ==
  IF dateResult.k = "null" THEN NullDate
  ELSE IF dateResult.year = 0 THEN NullDate
  ELSE IF dateResult.month < 0 \/ dateResult.month > 11 THEN NullDate
  ELSE IF dateResult.day < 1 \/ dateResult.day > 31 THEN NullDate
  ELSE LET returnDate ==
             IF dateResult.year < 0 \/ dateResult.year > MaxLuxonYear
               THEN NewDate(dateResult.year, dateResult.month, dateResult.day, dateResult.hour)
               ELSE LuxonFromFormat(dateResult.year, dateResult.month, dateResult.day,
                                    dateResult.hour)
       IN  IF ~IsValid(returnDate) THEN NullDate ELSE returnDate

buildTimelineDate(dateResult) ==
  IF dateResult.k = "null" THEN NullDate
  ELSE IF dateResult.year = 0 THEN NullDate
  ELSE IF dateResult.month < 0 \/ dateResult.month > 11 THEN NullDate
  ELSE IF dateResult.day < 1 \/ dateResult.day > 31 THEN NullDate
  ELSE IF dateResult.hour < 0 \/ dateResult.hour > 23 THEN NullDate
  ELSE LET returnDate ==
             IF dateResult.year < 0 \/ dateResult.year > MaxLuxonYear
               THEN NewDate(dateResult.year, dateResult.month, dateResult.day, dateResult.hour)
               ELSE LuxonFromFormat(dateResult.year, dateResult.month, dateResult.day,
                                    dateResult.hour)
       IN  IF ~IsSet(returnDate) THEN NullDate        \* no ISO string
           ELSE IF ~IsValid(returnDate) THEN NullDate \* isNaN( returnDate.getTime() )
           ELSE returnDate

\* a type value: undefined, or a string as its sequence of characters
UndefinedType == [k |-> "undefined", s |-> <<>>]
Str(chars) == [k |-> "string", s |-> chars]
BoxType == Str(<<"b", "o", "x">>)
PointType == Str(<<"p", "o", "i", "n", "t">>)
RangeType == Str(<<"r", "a", "n", "g", "e">>)
BackgroundType == Str(<<"b", "a", "c", "k", "g", "r", "o", "u", "n", "d">>)
validTypes == {BoxType, PointType, RangeType, BackgroundType}

VisPrefix == <<"v", "i", "s", "-">>

\* type.replace( /^vis-/, '' )
StripVisPrefix(chars) ==
  IF Len(chars) >= Len(VisPrefix) /\ SubSeq(chars, 1, Len(VisPrefix)) = VisPrefix
    THEN SubSeq(chars, Len(VisPrefix) + 1, Len(chars))
    ELSE chars

\* a slip: the 'vis-' prefix is not removed
validateTimelineTypeNoStrip(type) ==
  IF type.k # "string" \/ type.s = <<>> THEN BoxType
  ELSE IF type \in validTypes THEN type ELSE BoxType

validateTimelineType(type) ==
  IF type.k # "string" \/ type.s = <<>> THEN BoxType
  ELSE LET normalizedType == Str(StripVisPrefix(type.s))
       IN  IF normalizedType \in validTypes THEN normalizedType ELSE BoxType

-----------------------------------------------------------------------------
(* dates.ts: parseSimplifiedDate and createDateResult. A raw value is a      *)
(* string (its sequence of characters), null, undefined or a number.        *)

NullValue == [k |-> "null", s |-> <<>>]
NumberValue == [k |-> "number", s |-> <<>>]

DigitChars == <<"0", "1", "2", "3", "4", "5", "6", "7", "8", "9">>

IsDigit(c) == \E i \in 1..Len(DigitChars) : DigitChars[i] = c

DigitValue(c) == (CHOOSE i \in 1..Len(DigitChars) : DigitChars[i] = c) - 1

\* dateString.replace( /\D/g, '' )
CleanString(chars) == SelectSeq(chars, IsDigit)

\* s.substring( from, to ) with 0 <= from <= to: clipped to the length of s
Substring(s, from, to) ==
  LET last == IF to < Len(s) THEN to ELSE Len(s)
  IN  IF from >= last THEN <<>> ELSE SubSeq(s, from + 1, last)

\* parseInt( s ) || 0 for a string of digits: NaN for the empty string, then 0
RECURSIVE ParseIntOrZero(_)
ParseIntOrZero(s) ==
  IF s = <<>> THEN 0
  ELSE 10 * ParseIntOrZero(SubSeq(s, 1, Len(s) - 1)) + DigitValue(s[Len(s)])

\* n.toString() for n >= 0, as the sequence of its characters
RECURSIVE NumberChars(_)
NumberChars(n) ==
  IF n < 10 THEN <<DigitChars[n + 1]>>
  ELSE Append(NumberChars(n \div 10), DigitChars[(n % 10) + 1])

RECURSIVE Zeros(_)
Zeros(count) == IF count <= 0 THEN "" ELSE "0" \o Zeros(count - 1)

\* n.toString().padStart( width, '0' ) for n >= 0
PadStart(n, width) == Zeros(width - Len(NumberChars(n))) \o ToString(n)

\* lines 92-135; month arrives 1-indexed and leaves 0-indexed, hour is
\* Math.floor( hour + minute / 60 )
createDateResult(year, month, day, hour, minute) ==
  [k |-> "components",
   year |-> year,
   month |-> month - 1,
   day |-> day,
   hour |-> hour + (minute \div 60),
   normalizedDateString |->
     PadStart(year, 4) \o "-" \o PadStart(month, 2) \o "-" \o PadStart(day, 2)
       \o "-" \o PadStart(hour, 2)]

\* the DateParsingConfig: the width of each slice
Config(y, m, d, h, mi) ==
  [yearLength |-> y, monthLength |-> m, dayLength |-> d, hourLength |-> h,
   minuteLength |-> mi]

\* the slices of lines 31-55
Slices(chars, config) ==
  LET cleanString == CleanString(chars)
      p1 == config.yearLength
      p2 == p1 + config.monthLength
      p3 == p2 + config.dayLength
      p4 == p3 + config.hourLength
  IN  [yearStr   |-> Substring(cleanString, 0, p1),
       monthStr  |-> Substring(cleanString, p1, p2),
       dayStr    |-> Substring(cleanString, p2, p3),
       hourStr   |-> Substring(cleanString, p3, p4),
       minuteStr |-> Substring(cleanString, p4, p4 + config.minuteLength)]

\* a slip: the inference does not look at the event type
parseSimplifiedDateInferAlways(dateString, config, isEndDate, eventType) ==
  IF dateString.k # "string" \/ dateString.s = <<>> THEN NullComponents
  ELSE LET sl == Slices(dateString.s, config)
           year == ParseIntOrZero(sl.yearStr)
           month == ParseIntOrZero(sl.monthStr)
           day == ParseIntOrZero(sl.dayStr)
       IN  IF sl.yearStr = <<>> \/ year = 0 THEN NullComponents
           ELSE IF isEndDate /\ sl.monthStr = <<>>
             THEN createDateResult(year + 1, 1, 1, 0, 0)
           ELSE createDateResult(year, IF month = 0 THEN 1 ELSE month,
                                 IF day = 0 THEN 1 ELSE day,
                                 ParseIntOrZero(sl.hourStr), ParseIntOrZero(sl.minuteStr))

\* a slip: a year slice that parses to 0 is let through
parseSimplifiedDateZeroYear(dateString, config, isEndDate, eventType) ==
  IF dateString.k # "string" \/ dateString.s = <<>> THEN NullComponents
  ELSE LET sl == Slices(dateString.s, config)
           year == ParseIntOrZero(sl.yearStr)
           month == ParseIntOrZero(sl.monthStr)
           day == ParseIntOrZero(sl.dayStr)
       IN  IF sl.yearStr = <<>> THEN NullComponents
           ELSE createDateResult(year, IF month = 0 THEN 1 ELSE month,
                                 IF day = 0 THEN 1 ELSE day,
                                 ParseIntOrZero(sl.hourStr), ParseIntOrZero(sl.minuteStr))

\* lines 17-87; eventType is compared with 'point' as it is given
parseSimplifiedDate(dateString, config, isEndDate, eventType) ==
  IF dateString.k # "string" \/ dateString.s = <<>> THEN NullComponents  \* line 23
  ELSE LET sl == Slices(dateString.s, config)
           year == ParseIntOrZero(sl.yearStr)
           month == ParseIntOrZero(sl.monthStr)
           day == ParseIntOrZero(sl.dayStr)
           hour == ParseIntOrZero(sl.hourStr)
           minute == ParseIntOrZero(sl.minuteStr)
       IN  IF sl.yearStr = <<>> THEN NullComponents                       \* line 36
           ELSE IF year = 0 THEN NullComponents                           \* line 65
           ELSE IF /\ isEndDate /\ eventType # PointType
                   /\ sl.monthStr = <<>> /\ sl.dayStr = <<>>
                   /\ sl.hourStr = <<>> /\ sl.minuteStr = <<>>
             THEN createDateResult(year + 1, 1, 1, 0, 0)                  \* line 76
           ELSE createDateResult(year, IF month = 0 THEN 1 ELSE month,
                                 IF day = 0 THEN 1 ELSE day, hour, minute)

-----------------------------------------------------------------------------
(* dates.ts: sortTimelineDates. Array.prototype.sort() without a comparator  *)
(* orders strings by their UTF-16 code units.                               *)

\* the code unit of '-' is 45, of the digits 48 to 57
CharCode(c) == IF c = "-" THEN 45 ELSE 48 + DigitValue(c)

RECURSIVE StringLess(_, _)
StringLess(a, b) ==
  IF b = <<>> THEN FALSE
  ELSE IF a = <<>> THEN TRUE
  ELSE IF a[1] = b[1] THEN StringLess(Tail(a), Tail(b))
  ELSE CharCode(a[1]) < CharCode(b[1])

\* array.sort(): each element goes in after the elements not greater than it
RECURSIVE InsertSorted(_, _)
InsertSorted(sorted, s) ==
  IF sorted = <<>> THEN <<s>>
  ELSE IF StringLess(s, sorted[1]) THEN <<s>> \o sorted
  ELSE <<sorted[1]>> \o InsertSorted(Tail(sorted), s)

RECURSIVE SortStrings(_)
SortStrings(strs) ==
  IF strs = <<>> THEN <<>>
  ELSE InsertSorted(SortStrings(SubSeq(strs, 1, Len(strs) - 1)), strs[Len(strs)])

\* array.reverse()
Reverse(strs) == [i \in 1..Len(strs) |-> strs[Len(strs) + 1 - i]]

\* filterFunc: dateStr[0] === '-'
IsNegativeDate(dateStr) == dateStr # <<>> /\ dateStr[1] = "-"

IsPositiveDate(dateStr) == ~IsNegativeDate(dateStr)

\* date.slice( 1 ) and `-${date}` over an array
StripSign(strs) == [i \in 1..Len(strs) |-> Tail(strs[i])]
PrefixSign(strs) == [i \in 1..Len(strs) |-> <<"-">> \o strs[i]]

\* lines 246-276
sortTimelineDates(timelineDates, sortDirection) ==
  LET negativeDatesUnsorted == SelectSeq(timelineDates, IsNegativeDate)
      positiveDates == SortStrings(SelectSeq(timelineDates, IsPositiveDate))
      strippedNegativeDates == Reverse(SortStrings(StripSign(negativeDatesUnsorted)))
  IN  IF sortDirection
        THEN PrefixSign(strippedNegativeDates) \o positiveDates
        ELSE Reverse(positiveDates) \o PrefixSign(Reverse(strippedNegativeDates))

-----------------------------------------------------------------------------
(* The item assembler: one round of the forEach over the events             *)

\* event.group: the name of a group, or NoGroup when the note names none
NoGroup == ""

NoEvent == [id |-> 0, startDate |-> NullComponents, endDate |-> NullComponents,
            type |-> UndefinedType, group |-> NoGroup]

\* lines 68-75: the groups array starts with the default group
DefaultGroup == [content |-> "", id |-> 1, value |-> 1]

\* groups.find( ( group ) => group.content === event.group )
GroupFound(grps, name) == \E i \in 1..Len(grps) : grps[i].content = name

\* lines 152-163: a group named by the event and not yet known is pushed
GroupsAfter(grps, name) ==
  IF ~GroupFound(grps, name) /\ name # NoGroup
    THEN Append(grps, [content |-> name, id |-> Len(grps) + 1, value |-> Len(grps) + 1])
    ELSE grps

\* line 170: foundGroup?.id ?? defaultGroup.id
GroupIdOf(grps, name) ==
  LET after == GroupsAfter(grps, name)
  IN  IF GroupFound(after, name)
        THEN after[CHOOSE i \in 1..Len(after) :
                     /\ after[i].content = name
                     /\ \A j \in 1..(i - 1) : after[j].content # name].id
        ELSE after[1].id

\* the outcome of one round: skipped (an early return) or the eventItem handed
\* to items.add
Skipped == [k |-> "skipped", start |-> NullDate, end |-> NullDate, type |-> BoxType]
Added(start, end, type) == [k |-> "added", start |-> start, end |-> end, type |-> type]

\* the year bound of lines 196-211
MinEventYear == 1
ExtremeYearSpan == 1000

\* a slip: only the lower bound is tested
ExtremeYearLowerOnly(date, cy) == YearOf(date.t) < MinEventYear

ExtremeYear(date, cy) ==
  YearOf(date.t) < MinEventYear \/ YearOf(date.t) > cy + ExtremeYearSpan

\* lines 110-148: the start, the end and the type of the event
BuiltEnd(ev) ==
  IF ev.endDate.normalizedDateString # "" THEN buildTimelineDate(ev.endDate) ELSE NullDate

ItemType(ev) ==
  IF ev.endDate.normalizedDateString # ""
    THEN validateTimelineType(ev.type)
    ELSE validateTimelineType(validateTimelineType(PointType))

\* a slip: the test that the end is after the start is missing
KeptEndNoOrder(start, end, cy) ==
  LET e1 == IF IsSet(end) /\ ~IsValid(end) THEN NullDate ELSE end
  IN  IF IsSet(e1) /\ ExtremeYear(e1, cy) THEN NullDate ELSE e1

\* a slip: an end equal to the start is kept
KeptEndStrictOrder(start, end, cy) ==
  LET e1 == IF IsSet(end) /\ ~IsValid(end) THEN NullDate ELSE end
      e2 == IF IsSet(e1) /\ DateLT(e1, start) THEN NullDate ELSE e1
  IN  IF IsSet(e2) /\ ExtremeYear(e2, cy) THEN NullDate ELSE e2

\* lines 183-211: the end that stays on the eventItem (null: end is undefined)
KeptEnd(start, end, cy) ==
  LET e1 == IF IsSet(end) /\ ~IsValid(end) THEN NullDate ELSE end
      e2 == IF IsSet(e1) /\ DateLE(e1, start) THEN NullDate ELSE e1
  IN  IF IsSet(e2) /\ ExtremeYear(e2, cy) THEN NullDate ELSE e2

\* a slip: an end that is given but does not build makes the round return
AssembleItemRejectUnbuiltEnd(ev, cy) ==
  LET start == buildTimelineDate(ev.startDate)
      end   == BuiltEnd(ev)
  IN  IF ~IsSet(start) THEN Skipped
      ELSE IF ev.endDate.normalizedDateString # "" /\ ~IsValid(end) THEN Skipped
      ELSE IF ~IsValid(start) THEN Skipped
      ELSE IF ExtremeYear(start, cy) THEN Skipped
      ELSE Added(start, KeptEnd(start, end, cy), ItemType(ev))

\* the round gets past the returns of lines 117 and 141 to the group lookup
ReachesGroupLookup(ev) ==
  /\ IsSet(buildTimelineDate(ev.startDate))
  /\ ~(IsSet(BuiltEnd(ev)) /\ ~IsValid(BuiltEnd(ev)))

\* lines 110-224 for one event
AssembleItem(ev, cy) ==
  LET start == buildTimelineDate(ev.startDate)
      end   == BuiltEnd(ev)
  IN  IF ~IsSet(start) THEN Skipped                            \* line 117
      ELSE IF IsSet(end) /\ ~IsValid(end) THEN Skipped         \* line 141
      ELSE IF ~IsValid(start) THEN Skipped                     \* line 178
      ELSE IF ExtremeYear(start, cy) THEN Skipped              \* line 199
      ELSE Added(start, KeptEnd(start, end, cy), ItemType(ev))

\* buildCombinedTimelineDataObject( eventItem ): the render item carries the
\* start, end and type of the eventItem
buildCombinedTimelineDataObject(eventItem, id) ==
  [id |-> id, start |-> eventItem.start, end |-> eventItem.end, type |-> eventItem.type]

-----------------------------------------------------------------------------
(* Viewport selection (lines 228-276) and the options object (279-315)      *)

\* isDefaultStartDate / isDefaultEndDate: getFullYear of the Invalid Date is NaN
DefaultYearFar == 60
DefaultYearNear == 40

\* a slip: the ends of the year range are left out
isDefaultStartDateExclusive(a, cy) ==
  /\ IsSet(a.startDate) /\ IsValid(a.startDate)
  /\ YearOf(a.startDate.t) > cy - DefaultYearFar
  /\ YearOf(a.startDate.t) < cy - DefaultYearNear

isDefaultStartDate(a, cy) ==
  /\ IsSet(a.startDate) /\ IsValid(a.startDate)
  /\ YearOf(a.startDate.t) >= cy - DefaultYearFar
  /\ YearOf(a.startDate.t) <= cy - DefaultYearNear

isDefaultEndDate(a, cy) ==
  /\ IsSet(a.endDate) /\ IsValid(a.endDate)
  /\ YearOf(a.endDate.t) >= cy + DefaultYearNear
  /\ YearOf(a.endDate.t) <= cy + DefaultYearFar

shouldUseSmartViewport(a, cy) == isDefaultStartDate(a, cy) /\ isDefaultEndDate(a, cy)

\* the options built from the supplied arguments
OptionsOfArgs(a) ==
  [start |-> a.startDate, end |-> a.endDate, min |-> a.minDate, max |-> a.maxDate,
   zoomMin |-> a.zoomInLimit, zoomMax |-> a.zoomOutLimit]

NoOptions ==
  [start |-> NullDate, end |-> NullDate, min |-> NullDate, max |-> NullDate,
   zoomMin |-> NaNNum, zoomMax |-> NaNNum]

RECURSIVE MinOver(_, _), MaxOver(_, _)
MinOver(f, n) == IF n = 1 THEN f[1] ELSE LET r == MinOver(f, n - 1) IN IF f[n] < r THEN f[n] ELSE r
MaxOver(f, n) == IF n = 1 THEN f[1] ELSE LET r == MaxOver(f, n - 1) IN IF f[n] > r THEN f[n] ELSE r

\* the span of the render set: latest end-or-start minus earliest start
ItemSpan(its) ==
  LET starts == [i \in 1..Len(its) |-> its[i].start.t]
      ends   == [i \in 1..Len(its) |->
                   IF IsSet(its[i].end) THEN its[i].end.t ELSE its[i].start.t]
  IN  MaxOver(ends, Len(its)) - MinOver(starts, Len(its))

\* calculateSmartViewport( allItems ) returns null for an empty render set or a
\* zero span
SmartViewportIsNull(its) == its = <<>> \/ ItemSpan(its) = 0

\* what validateViewport( smartViewport ) may hand back: its source is not part of
\* the repository sources at hand, so any window over SmartDates is allowed
SmartDates == {InvalidDate, NewDate(2010, 5, 1, 0), NewDate(2150, 0, 1, 0)}

ValidatedViewports == [start : SmartDates, end : SmartDates, min : SmartDates, max : SmartDates]

\* the static window of the fallback timeline (lines 432-442)
safeOptions ==
  [start |-> NewDate(2020, 0, 1, 0), end |-> NewDate(2025, 0, 1, 0),
   min |-> NewDate(2000, 0, 1, 0), max |-> NewDate(2030, 0, 1, 0),
   zoomMin |-> DefaultZoomMin, zoomMax |-> DefaultZoomMax]

-----------------------------------------------------------------------------
(* Inputs                                                                   *)

\* the number of events of one render pass
MaxEvents == 2

CurrentYears == {2026}

\* the config of a fresh installation (main.ts, the migration default)
DefaultDateParsingConfig == Config(4, 2, 2, 2, 2)

Max2(a, b) == IF a > b THEN a ELSE b

ZoomOutLimitDefault == FinNum(1, <<3, 1, 5, 3, 6, 0, 0, 0, 0, 0, 0, 0, 0, 0, 1>>, 15)

\* lines 28-37: the year through parseSimplifiedDate and buildTimelineDate, and
\* new Date( year, 0, 1 ) when that gives null
DefaultBound(year, config) ==
  LET built == buildTimelineDate(
                 parseSimplifiedDate(Str(NumberChars(year)), config, FALSE, BoxType))
  IN  IF IsSet(built) THEN built ELSE NewDate(year, 0, 1, 0)

setDefaultArgs(config, cy) ==
  [startDate |-> DefaultBound(Max2(1900, cy - 50), config),
   endDate   |-> DefaultBound(cy + 50, config),
   minDate   |-> DefaultBound(Max2(1800, cy - 100), config),
   maxDate   |-> DefaultBound(cy + 100, config),
   zoomInLimit  |-> DefaultZoomMin,
   zoomOutLimit |-> ZoomOutLimitDefault]

Window(s, e, mn, mx) == [startDate |-> s, endDate |-> e, minDate |-> mn, maxDate |-> mx]

WithZoom(w, zin, zout) ==
  [startDate |-> w.startDate, endDate |-> w.endDate, minDate |-> w.minDate,
   maxDate |-> w.maxDate, zoomInLimit |-> zin, zoomOutLimit |-> zout]

\* the windows a code block can ask for, for the render pass
PassWindows ==
  { Window(NewDate(2020, 0, 1, 0), NewDate(2025, 0, 1, 0),
           NewDate(2000, 0, 1, 0), NewDate(2030, 0, 1, 0)),
    Window(InvalidDate, InvalidDate, InvalidDate, InvalidDate),
    Window(NewDate(2050, 0, 1, 0), NewDate(2010, 0, 1, 0),
           NewDate(2090, 0, 1, 0), NewDate(1950, 0, 1, 0)),
    Window(NewDate(1850, 0, 1, 0), NewDate(2150, 0, 1, 0),
           NewDate(1800, 0, 1, 0), NewDate(2200, 0, 1, 0)),
    Window(NewDate(1950, 0, 1, 0), NewDate(2090, 0, 1, 0),
           NewDate(2000, 0, 1, 0), NewDate(2030, 0, 1, 0)) }

\* zoom limits other than the defaults: invalid ones, inverted ones
PassZooms ==
  { <<NaNNum, ZeroNum>>,
    <<FinNum(1, <<5>>, 4), FinNum(1, <<5>>, 1)>> }

PassArgs(cy) ==
  {setDefaultArgs(DefaultDateParsingConfig, cy)}
  \cup {WithZoom(w, DefaultZoomMin, ZoomOutLimitDefault) : w \in PassWindows}
  \cup {WithZoom(Window(NewDate(2020, 0, 1, 0), NewDate(2025, 0, 1, 0),
                         NewDate(2000, 0, 1, 0), NewDate(2030, 0, 1, 0)), z[1], z[2]) :
          z \in PassZooms}

\* the windows and zoom limits the sanitizer is checked on alone
SanitizerDates ==
  { InvalidDate,
    NewDate(1850, 0, 1, 0),
    NewDate(1900, 2, 1, 0),
    NewDate(1900, 5, 1, 0),
    NewDate(2000, 0, 1, 0),
    NewDate(2030, 0, 1, 0),
    NewDate(2100, 5, 1, 0),
    NewDate(2150, 0, 1, 0) }

SanitizerZoomIn ==
  { NaNNum, ZeroNum, FinNum(-1, <<5>>, 1), DefaultZoomMin,
    FinNum(1, <<1>>, 307), InfNum(1) }

SanitizerZoomOut ==
  { NaNNum, ZeroNum, InfNum(-1), FinNum(1, <<5>>, 1), ZoomOutLimitDefault, InfNum(1) }

SanitizerArgs ==
  [startDate : SanitizerDates, endDate : SanitizerDates,
   minDate : SanitizerDates, maxDate : SanitizerDates,
   zoomInLimit : SanitizerZoomIn, zoomOutLimit : SanitizerZoomOut]

\* the events of the notes: start components, end components, type
GoodStart == Components(2025, 2, 15, 10, "2025-03-15-10")

StartDates ==
  { GoodStart,
    Components(3026, 0, 1, 0, "3026-01-01-00"),
    Components(3027, 0, 1, 0, "3027-01-01-00"),
    Components(5000, 0, 1, 0, "5000-01-01-00"),
    Components(-50, 0, 1, 0, "-050-01-01-00"),
    Components(1, 0, 1, 0, "0001-01-01-00"),
    Components(2025, 12, 1, 0, "2025-13-01-00"),
    Components(1500, 1, 30, 0, "1500-02-30-00"),
    Components(2025, 1, 30, 0, "2025-02-30-00"),
    Components(300000, 0, 1, 0, "300000-01-01-00"),
    NullComponents }

NoEndDate == Components(0, 0, 0, 0, "")

EndDates ==
  { NoEndDate,
    Components(2026, 0, 1, 0, "2026-01-01-00"),
    Components(2025, 2, 15, 10, "2025-03-15-10"),
    Components(2020, 0, 1, 0, "2020-01-01-00"),
    Components(2025, 12, 1, 0, "2025-13-01-00"),
    Components(3026, 5, 1, 0, "3026-06-01-00"),
    Components(5000, 0, 1, 0, "5000-01-01-00"),
    Components(1500, 1, 30, 0, "1500-02-30-00"),
    Components(-50, 0, 1, 0, "-050-01-01-00"),
    Components(300000, 0, 1, 0, "300000-01-01-00") }

EventTypes == {PointType, UndefinedType, Str(<<"v", "i", "s", "-", "r", "a", "n", "g", "e">>)}

\* every end with the good start and every type; every start with no end and
\* with a later end
Events ==
  {[startDate |-> GoodStart, endDate |-> e, type |-> t, group |-> NoGroup] :
      e \in EndDates, t \in EventTypes}
  \cup
  {[startDate |-> s, endDate |-> e, type |-> BoxType, group |-> "Wars"] :
      s \in StartDates, e \in {NoEndDate, Components(5000, 0, 1, 0, "5000-01-01-00")}}

-----------------------------------------------------------------------------
(* timeline-health.ts: the health checker                                   *)

\* the function console.warn is bound to before any check replaced it; a
\* wrapper is named by the number of the checkForInfiniteLoop call that made it
NativeWarn == 0

NoPage == [horizontal |-> <<>>, vertical |-> <<>>]

\* no health check is involved
HealthIdle ==
  /\ page = NoPage
  /\ checks = <<>>
  /\ consoleWarn = NativeWarn
  /\ closures = <<>>
  /\ emitted = <<>>

\* message.includes( phrase ), a message being the sequence of its phrases
Includes(message, phrase) == \E i \in 1..Len(message) : message[i] = phrase

\* lines 199-205: calling the function console.warn is bound to. A wrapper sets
\* its flag when the message matches and calls the function it saved
RECURSIVE WarnThrough(_, _, _)
WarnThrough(fn, message, cls) ==
  IF fn = NativeWarn THEN cls
  ELSE LET seen == Includes(message, "infinite loop") /\ Includes(message, "redraw")
           marked == [cls EXCEPT ![fn].infiniteLoopDetected = @ \/ seen]
       IN  WarnThrough(cls[fn].originalConsoleWarn, message, marked)

\* line 210: the delay of the restore callback
RestoreDelay == 1000

RestoreTimer(due, id) == [due |-> due, callback |-> "restore", closure |-> id]

\* lines 193-213. env holds console.warn, the closures and the timers; the
\* result is the closure's flag as it is when the function returns
checkForInfiniteLoop(env, now) ==
  LET id == Len(env.closures) + 1
      installed == Append(env.closures, [originalConsoleWarn |-> env.consoleWarn,
                                         infiniteLoopDetected |-> FALSE])
  IN  [consoleWarn |-> id,
       closures |-> installed,
       timers |-> Append(env.timers, RestoreTimer(now + RestoreDelay, id)),
       result |-> installed[id].infiniteLoopDetected]

\* issues.push( issue ); status = severity, when the condition holds
Record(state, condition, issue, severity) ==
  IF condition THEN [issues |-> Append(state.issues, issue), status |-> severity]
  ELSE state

NoIssues == [issues |-> <<>>, status |-> "healthy"]

\* invalidOptions.join(', ')
RECURSIVE Join(_)
Join(keys) ==
  IF keys = <<>> THEN ""
  ELSE IF Len(keys) = 1 THEN keys[1]
  ELSE keys[1] \o ", " \o Join(Tail(keys))

\* lines 44-133. A horizontal element: timeline is "none" (no vis-timeline
\* instance), "throws" (reading its data throws) or "ok"
checkHorizontalTimeline(element, index, env, now) ==
  LET inspected ==
        IF element.timeline = "none"
          THEN Record(NoIssues, TRUE, "No vis-timeline instance found", "error")
        ELSE IF element.timeline = "throws"
          THEN Record(NoIssues, TRUE, "Error inspecting timeline data", "error")
        ELSE
          LET s1 == Record(NoIssues, element.itemCount = 0, "No timeline items found", "warning")
              s2 == Record(s1, element.problematicItems > 0,
                           ToString(element.problematicItems) \o " items have invalid dates",
                           "error")
              s3 == Record(s2, Len(element.invalidOptions) > 0,
                           "Invalid timeline options: " \o Join(element.invalidOptions),
                           "error")
          IN  Record(s3, element.zoomInverted, "Invalid zoom limits (zoomMin >= zoomMax)", "error")
      itemCount == IF element.timeline = "ok" THEN element.itemCount ELSE 0
      loop == checkForInfiniteLoop(env, now)
      s5 == Record(inspected, loop.result, "Infinite loop detected in timeline rendering", "error")
      s6 == Record(s5, element.errorMessage, "Timeline has error message displayed", "error")
  IN  [check |-> [element |-> index, type |-> "horizontal", status |-> s6.status,
                  issues |-> s6.issues, itemCount |-> itemCount,
                  hasInfiniteLoop |-> loop.result],
       env |-> [consoleWarn |-> loop.consoleWarn, closures |-> loop.closures,
                timers |-> loop.timers]]

\* lines 138-188. A vertical element: its numbers of cards, containers, h2
\* headers and internal links without href
checkVerticalTimeline(element, index) ==
  LET s1 == Record(NoIssues, element.cards = 0, "No timeline cards found", "warning")
      s2 == Record(s1, element.containers = 0, "No timeline containers found", "error")
      s3 == Record(s2, element.headers = 0, "No date headers found", "warning")
      s4 == Record(s3, element.brokenLinks > 0,
                   ToString(element.brokenLinks) \o " broken internal links", "warning")
  IN  [element |-> index, type |-> "vertical", status |-> s4.status, issues |-> s4.issues,
       itemCount |-> element.cards, hasInfiniteLoop |-> FALSE]

\* lines 29-31: horizontalTimelines.forEach
RECURSIVE CheckHorizontals(_, _, _, _)
CheckHorizontals(elements, i, env, now) ==
  IF i > Len(elements) THEN [checks |-> <<>>, env |-> env]
  ELSE LET one == checkHorizontalTimeline(elements[i], i, env, now)
           rest == CheckHorizontals(elements, i + 1, one.env, now)
       IN  [checks |-> <<one.check>> \o rest.checks, env |-> rest.env]

\* lines 34-36: verticalTimelines.forEach
CheckVerticals(elements, offset) ==
  [j \in 1..Len(elements) |-> checkVerticalTimeline(elements[j], offset + j)]

\* lines 21-39
checkAllTimelines(thePage, env, now) ==
  LET horizontal == CheckHorizontals(thePage.horizontal, 1, env, now)
  IN  [checks |-> horizontal.checks \o CheckVerticals(thePage.vertical, Len(thePage.horizontal)),
       env |-> horizontal.env]

-----------------------------------------------------------------------------
(* The render pass                                                          *)

\* what the pass leaves in timelineDiv
NoNotice == ""
FallbackNotice ==
  "Timeline could not be rendered due to data issues. Check console for details."
FailedNotice == "Timeline rendering failed. Please check your timeline data and try again."

\* no function is called on its own during a render pass
NoCall == [fn |-> "none"]
NoReturn == [k |-> "none"]

Init ==
  /\ pc = "items"
  /\ currentYear \in CurrentYears
  /\ args \in PassArgs(currentYear)
  /\ items = <<>>
  /\ event = NoEvent
  /\ options = NoOptions
  /\ smart = "none"
  /\ calls = <<>>
  /\ pass1 = NoOptions
  /\ call = NoCall
  /\ ret = NoReturn
  /\ groups = <<DefaultGroup>>
  /\ notice = NoNotice
  /\ clock = 0
  /\ timers = <<>>
  /\ HealthIdle

\* one round of timelineDates.forEach / Object.values( ... ).forEach (lines 77-226)
ProcessEvent ==
  /\ pc = "items"
  /\ event.id < MaxEvents
  /\ \E ev \in Events :
       LET n == event.id + 1
           r == AssembleItem(ev, currentYear)
       IN  /\ event' = [id |-> n, startDate |-> ev.startDate, endDate |-> ev.endDate,
                        type |-> ev.type, group |-> ev.group]
           /\ groups' = IF ReachesGroupLookup(ev) THEN GroupsAfter(groups, ev.group) ELSE groups
           /\ items' = IF r.k = "added"
                         THEN Append(items,
                                [evId |-> n, group |-> GroupIdOf(groups, ev.group)]
                                  @@ buildCombinedTimelineDataObject(r, Len(items) + 1))
                         ELSE items
  /\ UNCHANGED <<pc, currentYear, args, options, smart, calls, pass1, call, ret, notice,
                 clock, timers,
                 page, checks, consoleWarn, closures, emitted>>

\* lines 228-315
SelectViewport ==
  /\ pc = "items"
  /\ IF ~shouldUseSmartViewport(args, currentYear)
       THEN /\ options' = OptionsOfArgs(args)
            /\ smart' = "explicit"
       ELSE IF SmartViewportIsNull(items)
         THEN /\ options' = OptionsOfArgs(args)
              /\ smart' = "null"
         ELSE /\ \E v \in ValidatedViewports :
                   options' = [OptionsOfArgs(args) EXCEPT !.start = v.start, !.end = v.end,
                                                          !.min = v.min, !.max = v.max]
              /\ smart' = "smart"
  /\ pc' = "sanitize"
  /\ event' = NoEvent
  /\ UNCHANGED <<currentYear, args, items, calls, pass1, call, ret, groups, notice, clock, timers,
                 page, checks, consoleWarn, closures, emitted>>

\* lines 317-388
SanitizeOptions ==
  /\ pc = "sanitize"
  /\ options' = SanitizeViewport(options)
  /\ pc' = "construct"
  /\ UNCHANGED <<currentYear, args, items, event, smart, calls, pass1, call, ret, groups, notice, clock, timers,
                 page, checks, consoleWarn, closures, emitted>>

\* one call of the Timeline constructor: what it was handed, and whether it threw
TimelineCall(its, grps, o, threw) ==
  [items |-> its, groups |-> grps, options |-> o, threw |-> threw]

\* lines 444-445
emptyItems == <<>>
emptyGroups == <<[content |-> "No items to display", id |-> 0, value |-> 0]>>

\* lines 473-500: the delay of the post-render check
ProbeDelay == 500

Timer(due, callback) == [due |-> due, callback |-> callback]

\* a slip: the fallback construction is not inside a try block of its own
TimelineConstructionUnguarded(its, grps, o, now, firstThrows, fallbackThrows) ==
  IF ~firstThrows
    THEN [pc |-> "rendered", calls |-> <<TimelineCall(its, grps, o, FALSE)>>,
          notice |-> NoNotice, timers |-> <<Timer(now + ProbeDelay, "probe")>>]
  ELSE IF ~fallbackThrows
    THEN [pc |-> "fallback",
          calls |-> <<TimelineCall(its, grps, o, TRUE),
                      TimelineCall(emptyItems, emptyGroups, safeOptions, FALSE)>>,
          notice |-> FallbackNotice, timers |-> <<>>]
  ELSE [pc |-> "thrown",
        calls |-> <<TimelineCall(its, grps, o, TRUE),
                    TimelineCall(emptyItems, emptyGroups, safeOptions, TRUE)>>,
        notice |-> NoNotice, timers |-> <<>>]

\* lines 419-500: new Timeline( ... ) returns or throws (vis-timeline decides); the
\* catch block constructs the fallback timeline, which returns or throws too.
\* pc is how the pass ends: "rendered", "fallback" and "failed" are normal
\* returns, "thrown" is an exception that reaches the caller.
TimelineConstruction(its, grps, o, now, firstThrows, fallbackThrows) ==
  IF ~firstThrows
    THEN [pc |-> "rendered", calls |-> <<TimelineCall(its, grps, o, FALSE)>>,
          notice |-> NoNotice, timers |-> <<Timer(now + ProbeDelay, "probe")>>]
  ELSE IF ~fallbackThrows
    THEN [pc |-> "fallback",
          calls |-> <<TimelineCall(its, grps, o, TRUE),
                      TimelineCall(emptyItems, emptyGroups, safeOptions, FALSE)>>,
          notice |-> FallbackNotice, timers |-> <<>>]
  ELSE [pc |-> "failed",
        calls |-> <<TimelineCall(its, grps, o, TRUE),
                    TimelineCall(emptyItems, emptyGroups, safeOptions, TRUE)>>,
        notice |-> FailedNotice, timers |-> <<>>]

ConstructTimeline ==
  /\ pc = "construct"
  /\ \E firstThrows, fallbackThrows \in BOOLEAN :
       LET r == TimelineConstruction(items, groups, options, clock, firstThrows,
                                     fallbackThrows)
       IN  /\ pc' = r.pc
           /\ calls' = calls \o r.calls
           /\ notice' = r.notice
           /\ timers' = timers \o r.timers
  /\ UNCHANGED <<currentYear, args, items, event, options, smart, pass1, call, ret, groups,
                 clock,
                 page, checks, consoleWarn, closures, emitted>>

\* the time of the host moves on while a callback waits for its delay
TickMs == 250

Tick ==
  /\ timers # <<>>
  /\ clock < timers[1].due
  /\ clock' = clock + TickMs
  /\ UNCHANGED <<pc, currentYear, args, items, event, options, smart, calls, pass1, call,
                 ret, groups, notice, timers,
                 page, checks, consoleWarn, closures, emitted>>

\* a slip: the body of the post-render check has no try block
ProbeOutcomeUncaught(throws) == IF throws THEN "thrown" ELSE "probed"

\* lines 475-499: whatever is thrown inside the check is caught and logged
ProbeOutcome(throws) == "probed"

\* lines 474-500: the callback reads timelineDiv.timeline and its items; reading
\* may throw
RunProbe ==
  /\ timers # <<>>
  /\ timers[1].callback = "probe"
  /\ clock >= timers[1].due
  /\ \E throws \in BOOLEAN : pc' = ProbeOutcome(throws)
  /\ timers' = Tail(timers)
  /\ UNCHANGED <<currentYear, args, items, event, options, smart, calls, pass1, call, ret,
                 groups, notice, clock,
                 page, checks, consoleWarn, closures, emitted>>

Next ==
  \/ ProcessEvent
  \/ SelectViewport
  \/ SanitizeOptions
  \/ ConstructTimeline
  \/ Tick
  \/ RunProbe

Spec == Init /\ [][Next]_vars

-----------------------------------------------------------------------------
(* Viewport selection on its own: the pass from line 228 on, for windows at  *)
(* the ends of the default year ranges and a few render sets                *)

\* the render set the forEach leaves for a sequence of events (lines 77-226)
RECURSIVE RenderSetOf(_, _)
RenderSetOf(evs, cy) ==
  IF evs = <<>> THEN <<>>
  ELSE LET its == RenderSetOf(SubSeq(evs, 1, Len(evs) - 1), cy)
           ev  == evs[Len(evs)]
           r   == AssembleItem(ev, cy)
       IN  IF r.k = "added"
             THEN Append(its, [evId |-> Len(evs), group |-> DefaultGroup.id]
                                @@ buildCombinedTimelineDataObject(r, Len(its) + 1))
             ELSE its

PointEvent == [startDate |-> GoodStart, endDate |-> NoEndDate, type |-> PointType,
               group |-> NoGroup]
RangeEvent == [startDate |-> GoodStart, endDate |-> Components(2026, 0, 1, 0, "2026-01-01-00"),
               type |-> RangeType, group |-> NoGroup]

\* no event, one instant, the same instant twice (zero span), a span
ViewportEventSeqs == {<<>>, <<PointEvent>>, <<PointEvent, PointEvent>>, <<PointEvent, RangeEvent>>}

ViewportCurrentYears == {2000, 2026, 2060}

\* the default window, and windows with start and end years on and next to
\* the ends of [cy - 60, cy - 40] and [cy + 40, cy + 60]
ViewportWindows(cy) ==
  { Window(NewDate(cy - 60, 0, 1, 0), NewDate(cy + 60, 11, 31, 0),
           NewDate(cy - 100, 0, 1, 0), NewDate(cy + 100, 0, 1, 0)),
    Window(NewDate(cy - 40, 11, 31, 0), NewDate(cy + 40, 0, 1, 0),
           NewDate(cy - 100, 0, 1, 0), NewDate(cy + 100, 0, 1, 0)),
    Window(NewDate(cy - 61, 11, 31, 0), NewDate(cy + 50, 0, 1, 0),
           NewDate(cy - 100, 0, 1, 0), NewDate(cy + 100, 0, 1, 0)),
    Window(NewDate(cy - 39, 0, 1, 0), NewDate(cy + 50, 0, 1, 0),
           NewDate(cy - 100, 0, 1, 0), NewDate(cy + 100, 0, 1, 0)),
    Window(NewDate(cy - 50, 0, 1, 0), NewDate(cy + 61, 0, 1, 0),
           NewDate(cy - 100, 0, 1, 0), NewDate(cy + 100, 0, 1, 0)),
    Window(NewDate(cy - 50, 0, 1, 0), NewDate(cy + 39, 11, 31, 0),
           NewDate(cy - 100, 0, 1, 0), NewDate(cy + 100, 0, 1, 0)),
    Window(InvalidDate, NewDate(cy + 50, 0, 1, 0),
           NewDate(cy - 100, 0, 1, 0), NewDate(cy + 100, 0, 1, 0)),
    Window(NewDate(cy - 50, 0, 1, 0), NullDate,
           NewDate(cy - 100, 0, 1, 0), NewDate(cy + 100, 0, 1, 0)) }

ViewportArgs(cy) ==
  {setDefaultArgs(DefaultDateParsingConfig, cy)}
  \cup {WithZoom(w, DefaultZoomMin, ZoomOutLimitDefault) : w \in ViewportWindows(cy)}

InitViewport ==
  /\ pc = "items"
  /\ currentYear \in ViewportCurrentYears
  /\ args \in ViewportArgs(currentYear)
  /\ \E evs \in ViewportEventSeqs : items = RenderSetOf(evs, currentYear)
  /\ event = NoEvent
  /\ options = NoOptions
  /\ smart = "none"
  /\ calls = <<>>
  /\ pass1 = NoOptions
  /\ call = NoCall
  /\ ret = NoReturn
  /\ groups = <<DefaultGroup>>
  /\ notice = NoNotice
  /\ clock = 0
  /\ timers = <<>>
  /\ HealthIdle

NextViewport == SelectViewport \/ SanitizeOptions \/ ConstructTimeline

SpecViewport == InitViewport /\ [][NextViewport]_vars

-----------------------------------------------------------------------------
(* The sanitizer alone, applied to a window and again to its own output     *)

InitSanitizer ==
  /\ pc = "sanitize"
  /\ currentYear \in CurrentYears
  /\ args \in SanitizerArgs
  /\ items = <<>>
  /\ event = NoEvent
  /\ options = OptionsOfArgs(args)
  /\ smart = "explicit"
  /\ calls = <<>>
  /\ pass1 = NoOptions
  /\ call = NoCall
  /\ ret = NoReturn
  /\ groups = <<DefaultGroup>>
  /\ notice = NoNotice
  /\ clock = 0
  /\ timers = <<>>
  /\ HealthIdle

SanitizeAgain ==
  /\ pc = "construct"
  /\ pass1' = options
  /\ options' = SanitizeViewport(options)
  /\ pc' = "resanitized"
  /\ UNCHANGED <<currentYear, args, items, event, smart, calls, call, ret, groups, notice, clock, timers,
                 page, checks, consoleWarn, closures, emitted>>

NextSanitizer == SanitizeOptions \/ SanitizeAgain

SpecSanitizer == InitSanitizer /\ [][NextSanitizer]_vars

-----------------------------------------------------------------------------
(* The functions of utils/dates.ts and utils/arguments.ts called on their   *)
(* own: one call, then its return                                           *)

\* raw date strings: separators, letters, short and long digit runs, slices
\* beyond the calendar, and values that are not strings
RawDates ==
  { Str(<<>>),
    Str(<<"a", "b", "c", "d">>),
    Str(<<"0", "0", "0", "0">>),
    Str(<<"0", "0", "0", "0", "0", "7">>),
    Str(<<"2", "0">>),
    Str(<<"0", "0", "2", "5">>),
    Str(<<"2", "0", "2", "5">>),
    Str(<<"2", "0", "2", "5", "-", "0", "3">>),
    Str(<<"2", "0", "2", "5", "0", "0">>),
    Str(<<"2", "0", "2", "5", ".", "0", "7", ".", "2", "5">>),
    Str(<<"2", "0", "2", "5", "1", "2", "3", "1", "2", "3">>),
    Str(<<"2", "0", "2", "5", "0", "7", "2", "5", "1", "4", "3", "0">>),
    Str(<<"2", "0", "2", "5", "1", "3", "0", "1">>),
    Str(<<"2", "0", "2", "5", "0", "1", "9", "9">>),
    Str(<<"2", "0", "2", "5", "0", "1", "0", "1", "2", "3", "6", "0">>),
    NullValue, UndefinedType, NumberValue }

ParsingConfigs ==
  { DefaultDateParsingConfig,
    Config(3, 2, 2, 2, 2),
    Config(2, 2, 2, 2, 2),
    Config(6, 2, 2, 2, 2),
    Config(4, 1, 1, 1, 1),
    Config(1, 1, 1, 1, 1) }

ParseEventTypes == {BoxType, PointType, RangeType, Str(<<"v", "i", "s", "-", "p", "o", "i", "n", "t">>)}

ParseCalls ==
  [fn : {"parseSimplifiedDate"}, dateString : RawDates, config : ParsingConfigs,
   isEndDate : BOOLEAN, eventType : ParseEventTypes]

\* components around every bound buildTimelineDate tests, on both sides of
\* the year 1900 and of the largest year of a Date
BuildYears == {-50, 0, 1, 1500, 1899, 1900, 1901, 2025, 9999, 300000}
BuildMonths == {-1, 0, 1, 11, 12}
BuildDays == {0, 1, 28, 29, 30, 31, 32}
BuildHours == {-1, 0, 23, 24}

BuildCalls ==
  {[fn |-> "buildTimelineDate", dateResult |-> NullComponents]}
  \cup {[fn |-> "buildTimelineDate", dateResult |-> Components(y, m0, d, h, "")] :
          y \in BuildYears, m0 \in BuildMonths, d \in BuildDays, h \in BuildHours}

RawTypes ==
  validTypes
  \cup { NullValue, UndefinedType, NumberValue, Str(<<>>),
         Str(<<"e", "v", "e", "n", "t">>),
         Str(<<"P", "o", "i", "n", "t">>),
         Str(<<"v", "i", "s", "-">>),
         Str(<<"v", "i", "s", "-", "p", "o", "i", "n", "t">>),
         Str(<<"v", "i", "s", "-", "r", "a", "n", "g", "e">>),
         Str(<<"v", "i", "s", "-", "e", "v", "e", "n", "t">>),
         Str(<<"v", "i", "s", "-", "v", "i", "s", "-", "p", "o", "i", "n", "t">>),
         Str(<<"b", "o", "x", "v", "i", "s", "-">>) }

TypeCalls == [fn : {"validateTimelineType"}, type : RawTypes]

DefaultsCalls == [fn : {"setDefaultArgs"}, config : ParsingConfigs]

\* the years new Date().getFullYear() gives when setDefaultArgs runs: before,
\* at and after the floors of the start and of the min
DefaultsCurrentYears == {1890, 1940, 1950, 2026, 2100}

\* the normalized date string of a date: sign, year on 4 digits or more, month,
\* day and hour on 2 digits
PadChars(n, width) ==
  [i \in 1..(width - Len(NumberChars(n))) |-> "0"] \o NumberChars(n)

DateChars(c) ==
  (IF c.negative THEN <<"-">> ELSE <<>>) \o PadChars(c.year, 4) \o <<"-">>
    \o PadChars(c.month, 2) \o <<"-">> \o PadChars(c.day, 2) \o <<"-">> \o PadChars(c.hour, 2)

SortDate(negative, y, m, d, h) ==
  [negative |-> negative, year |-> y, month |-> m, day |-> d, hour |-> h]

\* dates before and after the year 0, with years of 3, 4 and 5 digits
SortDates ==
  { SortDate(FALSE, 2025, 1, 1, 0),
    SortDate(FALSE, 2025, 3, 15, 10),
    SortDate(FALSE, 999, 12, 31, 23),
    SortDate(FALSE, 10000, 1, 1, 0),
    SortDate(TRUE, 50, 1, 1, 0),
    SortDate(TRUE, 500, 6, 1, 0) }

\* the length of the array sortTimelineDates is given
MaxSortLen == 3

SortArrays ==
  UNION {[1..n -> {DateChars(c) : c \in SortDates}] : n \in 0..MaxSortLen}

SortCalls == [fn : {"sortTimelineDates"}, timelineDates : SortArrays, sortDirection : BOOLEAN]

InitUtils ==
  /\ pc = "call"
  /\ call \in ParseCalls \cup BuildCalls \cup TypeCalls \cup DefaultsCalls \cup SortCalls
  /\ currentYear \in IF call.fn = "setDefaultArgs" THEN DefaultsCurrentYears ELSE CurrentYears
  /\ ret = NoReturn
  /\ args = setDefaultArgs(DefaultDateParsingConfig, currentYear)
  /\ items = <<>>
  /\ event = NoEvent
  /\ options = NoOptions
  /\ smart = "none"
  /\ calls = <<>>
  /\ pass1 = NoOptions
  /\ groups = <<DefaultGroup>>
  /\ notice = NoNotice
  /\ clock = 0
  /\ timers = <<>>
  /\ HealthIdle

CallParseSimplifiedDate ==
  /\ pc = "call" /\ call.fn = "parseSimplifiedDate"
  /\ ret' = parseSimplifiedDate(call.dateString, call.config, call.isEndDate, call.eventType)
  /\ pc' = "returned"
  /\ UNCHANGED <<currentYear, args, items, event, options, smart, calls, pass1, call, groups, notice, clock, timers,
                 page, checks, consoleWarn, closures, emitted>>

CallBuildTimelineDate ==
  /\ pc = "call" /\ call.fn = "buildTimelineDate"
  /\ ret' = buildTimelineDate(call.dateResult)
  /\ pc' = "returned"
  /\ UNCHANGED <<currentYear, args, items, event, options, smart, calls, pass1, call, groups, notice, clock, timers,
                 page, checks, consoleWarn, closures, emitted>>

CallValidateTimelineType ==
  /\ pc = "call" /\ call.fn = "validateTimelineType"
  /\ ret' = validateTimelineType(call.type)
  /\ pc' = "returned"
  /\ UNCHANGED <<currentYear, args, items, event, options, smart, calls, pass1, call, groups, notice, clock, timers,
                 page, checks, consoleWarn, closures, emitted>>

CallSetDefaultArgs ==
  /\ pc = "call" /\ call.fn = "setDefaultArgs"
  /\ ret' = setDefaultArgs(call.config, currentYear)
  /\ pc' = "returned"
  /\ UNCHANGED <<currentYear, args, items, event, options, smart, calls, pass1, call, groups, notice, clock, timers,
                 page, checks, consoleWarn, closures, emitted>>

CallSortTimelineDates ==
  /\ pc = "call" /\ call.fn = "sortTimelineDates"
  /\ ret' = [k |-> "dates", dates |-> sortTimelineDates(call.timelineDates, call.sortDirection)]
  /\ pc' = "returned"
  /\ UNCHANGED <<currentYear, args, items, event, options, smart, calls, pass1, call, groups,
                 notice, clock, timers,
                 page, checks, consoleWarn, closures, emitted>>

NextUtils ==
  \/ CallParseSimplifiedDate
  \/ CallBuildTimelineDate
  \/ CallValidateTimelineType
  \/ CallSetDefaultArgs
  \/ CallSortTimelineDates

SpecUtils == InitUtils /\ [][NextUtils]_vars

-----------------------------------------------------------------------------
(* The health check of a page, the warnings of its timelines and the timers *)

HorizontalElement(timeline, itemCount, problematicItems, invalidOptions, zoomInverted, errorMessage) ==
  [timeline |-> timeline, itemCount |-> itemCount, problematicItems |-> problematicItems,
   invalidOptions |-> invalidOptions, zoomInverted |-> zoomInverted,
   errorMessage |-> errorMessage]

HorizontalElements ==
  { HorizontalElement("ok", 2, 0, <<>>, FALSE, FALSE),
    HorizontalElement("ok", 0, 0, <<>>, FALSE, FALSE),
    HorizontalElement("ok", 2, 1, <<>>, FALSE, FALSE),
    HorizontalElement("ok", 0, 0, <<"min", "max">>, TRUE, FALSE),
    HorizontalElement("ok", 0, 0, <<>>, FALSE, TRUE),
    HorizontalElement("none", 0, 0, <<>>, FALSE, FALSE),
    HorizontalElement("throws", 0, 0, <<>>, FALSE, TRUE) }

VerticalElements ==
  [cards : {0, 2}, containers : {0, 1}, headers : {0, 2}, brokenLinks : {0, 1}]

\* the number of .timeline-vis elements and of .timeline elements of a page
MaxHorizontal == 2
MaxVertical == 1

Pages ==
  [horizontal : UNION {[1..n -> HorizontalElements] : n \in 0..MaxHorizontal},
   vertical : UNION {[1..n -> VerticalElements] : n \in 0..MaxVertical}]

\* what vis-timeline and others pass to console.warn
WarningTexts ==
  { <<"WARNING:", "infinite loop", "in", "redraw", "?">>,
    <<"redraw", "took", "long">>,
    <<"infinite loop", "guard">> }

\* the number of warnings of one behaviour
MaxWarnings == 1

InitHealth ==
  /\ pc = "page"
  /\ page \in Pages
  /\ checks = <<>>
  /\ consoleWarn = NativeWarn
  /\ closures = <<>>
  /\ emitted = <<>>
  /\ currentYear \in CurrentYears
  /\ args = setDefaultArgs(DefaultDateParsingConfig, currentYear)
  /\ items = <<>>
  /\ event = NoEvent
  /\ options = NoOptions
  /\ smart = "none"
  /\ calls = <<>>
  /\ pass1 = NoOptions
  /\ call = NoCall
  /\ ret = NoReturn
  /\ groups = <<DefaultGroup>>
  /\ notice = NoNotice
  /\ clock = 0
  /\ timers = <<>>

healthUnchanged ==
  UNCHANGED <<currentYear, args, items, event, options, smart, calls, pass1, call, ret,
              groups, notice>>

\* lines 21-39, with all they call: one synchronous run of the checker
CheckAllTimelines ==
  /\ pc = "page"
  /\ LET run == checkAllTimelines(page, [consoleWarn |-> consoleWarn, closures |-> closures,
                                         timers |-> timers], clock)
     IN  /\ checks' = run.checks
         /\ consoleWarn' = run.env.consoleWarn
         /\ closures' = run.env.closures
         /\ timers' = run.env.timers
  /\ pc' = "checked"
  /\ healthUnchanged
  /\ UNCHANGED <<page, emitted, clock>>

\* the vis-timeline of a horizontal element calls console.warn( message )
EmitWarning ==
  /\ Len(emitted) < MaxWarnings
  /\ \E i \in 1..Len(page.horizontal), message \in WarningTexts :
       /\ closures' = WarnThrough(consoleWarn, message, closures)
       /\ emitted' = Append(emitted, [element |-> i, message |-> message])
  /\ healthUnchanged
  /\ UNCHANGED <<pc, page, checks, consoleWarn, clock, timers>>

\* lines 208-210: the callback of setTimeout
RestoreConsoleWarn ==
  /\ timers # <<>>
  /\ timers[1].callback = "restore"
  /\ clock >= timers[1].due
  /\ consoleWarn' = closures[timers[1].closure].originalConsoleWarn
  /\ timers' = Tail(timers)
  /\ healthUnchanged
  /\ UNCHANGED <<pc, page, checks, closures, emitted, clock>>

NextHealth ==
  \/ CheckAllTimelines
  \/ EmitWarning
  \/ Tick
  \/ RestoreConsoleWarn

SpecHealth == InitHealth /\ [][NextHealth]_vars

-----------------------------------------------------------------------------
(* Properties of the viewport sanitizer (checked under SpecSanitizer)       *)

Sanitized == pc \in {"construct", "rendered", "probed", "fallback", "failed", "resanitized"}

\* every bound is a Date with a finite time value, start < end and min < max
WellFormedWindow(o) ==
  /\ IsValid(o.start) /\ IsValid(o.end) /\ IsValid(o.min) /\ IsValid(o.max)
  /\ o.start.t < o.end.t
  /\ o.min.t < o.max.t

\* C1: for any input window, each bound an instant or non-finite, the sanitizer
\* leaves a window with all four bounds finite, start < end and min < max.
C1_SanitizedWindowWellFormed == Sanitized => WellFormedWindow(options)

\* the case of C1: all four supplied bounds are non-finite and the sanitizer has run
C1_Witness ==
  /\ pc = "construct"
  /\ ~IsValid(args.startDate) /\ ~IsValid(args.endDate)
  /\ ~IsValid(args.minDate) /\ ~IsValid(args.maxDate)
  /\ WellFormedWindow(options)

Replaced(date) ==
  ~IsValid(date) \/ YearOf(date.t) < MinSafeYear \/ YearOf(date.t) > MaxSafeYear

AllReplaced(a) ==
  Replaced(a.startDate) /\ Replaced(a.endDate) /\ Replaced(a.minDate) /\ Replaced(a.maxDate)

BeforeSpan(a) == OrderMinMax(OrderStartEnd(ValidateDateFields(OptionsOfArgs(a))))

\* C3: after the sanitizer 1 year <= max - min <= 100 years (a year is 365 days);
\* a span under 1 year is repaired to min = max - 10 years, a span over 100 years
\* to min = max - 50 years.
C3_SpanWithinBounds ==
  pc = "construct" =>
     LET pre == BeforeSpan(args)
         span == options.max.t - options.min.t
     IN  /\ OneYear <= span /\ span <= 100 * OneYear
         /\ (pre.max.t - pre.min.t < OneYear) => span = 10 * OneYear
         /\ (pre.max.t - pre.min.t > 100 * OneYear) => span = 50 * OneYear
         /\ options.max = pre.max

\* the case of C3: the pannable span entered the span step above 100 years
C3_Witness ==
  /\ pc = "construct"
  /\ BeforeSpan(args).max.t - BeforeSpan(args).min.t > 100 * OneYear
  /\ options.max.t - options.min.t = 50 * OneYear

\* C4: applying the sanitizer to its own output returns that output unchanged.
C4_SanitizerIdempotent == pc = "resanitized" => options = pass1

\* the case of C4: the first pass left an end of start + 1 year beyond 2100 and a
\* min of max - 10 years before 1900, and the second pass has run
C4_Witness ==
  /\ pc = "resanitized"
  /\ pass1.end = DatePlus(pass1.start, OneYear) /\ YearOf(pass1.end.t) > MaxSafeYear
  /\ pass1.min = DatePlus(pass1.max, -(10 * OneYear)) /\ YearOf(pass1.min.t) < MinSafeYear

\* C5 as stated: after the zoom-limit step both limits are positive and finite
\* and zoomInLimit < zoomOutLimit, for any input limits.
C5_ZoomLimitsPositiveFinite ==
  pc = "construct" =>
     /\ IsFiniteNum(options.zoomMin) /\ IsFiniteNum(options.zoomMax)
     /\ NumLess(ZeroNum, options.zoomMin) /\ NumLess(ZeroNum, options.zoomMax)
     /\ NumLess(options.zoomMin, options.zoomMax)

-----------------------------------------------------------------------------
(* Properties of the render pass (checked under Spec)                       *)

\* C6: on every path, every window handed to a Timeline constructor is the
\* sanitized options or the static fallback window: all four bounds finite,
\* start < end and min < max.
C6_ConstructedWindowsWellFormed ==
  /\ \A i \in 1..Len(calls) : WellFormedWindow(calls[i].options)
  /\ Len(calls) >= 1 => calls[1].options = options /\ Sanitized
  /\ Len(calls) = 2 => calls[2].options = safeOptions

\* the case of C6: the smart viewport was applied, the construction threw and
\* the fallback timeline was constructed
C6_Witness ==
  /\ pc = "fallback"
  /\ smart = "smart"
  /\ Len(calls) = 2

\* the items the render set holds for the event of the last round
ItemsOfEvent == {i \in 1..Len(items) : items[i].evId = event.id}

Handled == pc = "items" /\ event.id > 0

\* the start of the event builds to an instant with a year in [1, currentYear + 1000]
StartAccepted ==
  LET start == buildTimelineDate(event.startDate)
  IN  IsValid(start) /\ YearOf(start.t) >= 1 /\ YearOf(start.t) <= currentYear + 1000

EndGiven == event.endDate.normalizedDateString # ""

C8_UnbuiltEndRejected ==
  (Handled /\ EndGiven /\ ~IsValid(buildTimelineDate(event.endDate))) => ItemsOfEvent = {}

\* C9: when the only problem is an end instant not after the start instant, the
\* item is added with its start unchanged and its end absent.
C9_EndNotAfterStartDemoted ==
  LET start == buildTimelineDate(event.startDate)
      end   == buildTimelineDate(event.endDate)
  IN  ( /\ Handled /\ StartAccepted /\ EndGiven
        /\ IsValid(end) /\ YearOf(end.t) >= 1 /\ YearOf(end.t) <= currentYear + 1000
        /\ end.t <= start.t )
      => /\ Cardinality(ItemsOfEvent) = 1
         /\ \A i \in ItemsOfEvent : items[i].start = start /\ items[i].end = NullDate

\* the case of C9: an end equal to the start, both within the year bound
C9_Witness ==
  /\ Handled /\ StartAccepted /\ EndGiven
  /\ buildTimelineDate(event.endDate) = buildTimelineDate(event.startDate)
  /\ \E i \in ItemsOfEvent : items[i].end = NullDate

\* C10: an event whose start year is below 1 or above currentYear + 1000 is
\* never added; an event whose start is within the bound and whose end year is
\* outside it is added with its end removed.
C10_ExtremeYears ==
  LET start == buildTimelineDate(event.startDate)
      end   == buildTimelineDate(event.endDate)
  IN  /\ ( /\ Handled /\ IsValid(start)
           /\ (YearOf(start.t) < 1 \/ YearOf(start.t) > currentYear + 1000) )
         => ItemsOfEvent = {}
      /\ ( /\ Handled /\ StartAccepted /\ EndGiven /\ IsValid(end)
           /\ (YearOf(end.t) < 1 \/ YearOf(end.t) > currentYear + 1000) )
         => /\ Cardinality(ItemsOfEvent) = 1
            /\ \A i \in ItemsOfEvent : items[i].start = start /\ items[i].end = NullDate

\* the case of C10: a start in year 5000 with nothing else wrong is not added
C10_Witness ==
  /\ Handled
  /\ event.startDate.year = 5000
  /\ IsValid(buildTimelineDate(event.startDate))
  /\ ~EndGiven
  /\ ItemsOfEvent = {}

-----------------------------------------------------------------------------
(* Properties of the render set (checked under Spec)                        *)

\* C11: after any sequence of events, every item of the render set has a
\* finite start, and an end that is present is finite and strictly after the
\* start.
C11_ItemsStartFiniteEndAfterStart ==
  \A i \in 1..Len(items) :
    /\ IsValid(items[i].start)
    /\ IsSet(items[i].end) => IsValid(items[i].end) /\ items[i].end.t > items[i].start.t

\* the case of C11: two events were added, one keeping its end and one whose
\* end, equal to its start, was taken away
C11_Witness ==
  /\ Len(items) = 2
  /\ IsSet(items[1].end)
  /\ ~IsSet(items[2].end)
  /\ Handled /\ EndGiven
  /\ items[2].evId = event.id
  /\ buildTimelineDate(event.endDate) = buildTimelineDate(event.startDate)

\* C12 as stated: every item of the render set without an end has type
\* 'point', whether the end was absent, did not build or was taken away.
C12_EndlessItemsArePoints ==
  \A i \in 1..Len(items) : ~IsSet(items[i].end) => items[i].type = PointType

-----------------------------------------------------------------------------
(* Properties of parseSimplifiedDate (checked under SpecUtils)              *)

Returned(fn) == pc = "returned" /\ call.fn = fn

\* the slices of the digit-only string of the call, and the value of its year slice
CallSlices == Slices(call.dateString.s, call.config)

YearSliceValue == ParseIntOrZero(CallSlices.yearStr)

\* the raw input is not a non-empty string, or the year slice is empty or parses to 0
NoYear ==
  \/ call.dateString.k # "string"
  \/ call.dateString.s = <<>>
  \/ CallSlices.yearStr = <<>>
  \/ YearSliceValue = 0

NoFinerSlice ==
  /\ CallSlices.monthStr = <<>> /\ CallSlices.dayStr = <<>>
  /\ CallSlices.hourStr = <<>> /\ CallSlices.minuteStr = <<>>

\* end-date inference as the specification words it
InferenceApplies == call.isEndDate /\ call.eventType # PointType /\ NoFinerSlice

\* C13 as stated: parseSimplifiedDate returns null exactly when the raw input
\* is not a non-empty string or the year slice is empty or parses to 0, and
\* every other result carries the value of the year slice as its year.
C13_NullExactlyWithoutYear ==
  Returned("parseSimplifiedDate") =>
    /\ ret.k = "null" <=> NoYear
    /\ ~NoYear => ret.year = YearSliceValue

\* C13 amended: null exactly in those cases; every other result carries the
\* value of the year slice as its year, or that value plus one when end-date
\* inference applies.
C13_NullExactlyWithoutYearOrInferred ==
  Returned("parseSimplifiedDate") =>
    /\ ret.k = "null" <=> NoYear
    /\ (~NoYear /\ ~InferenceApplies) => ret.year = YearSliceValue
    /\ (~NoYear /\ InferenceApplies) => ret.year = YearSliceValue + 1

\* the case of C13: a string with separators under a config with a 3-digit
\* year, parsed as a start date
C13_Witness ==
  /\ Returned("parseSimplifiedDate")
  /\ call.dateString = Str(<<"2", "0", "2", "5", ".", "0", "7", ".", "2", "5">>)
  /\ call.config.yearLength = 3
  /\ ~call.isEndDate
  /\ ret.k = "components" /\ ret.year = 202

C15_EndDateRoundedUp ==
  ( /\ Returned("parseSimplifiedDate") /\ ~NoYear
    /\ call.isEndDate /\ call.eventType # PointType
    /\ CallSlices.dayStr = <<>> )
  => LET month == ParseIntOrZero(CallSlices.monthStr)
     IN  /\ CallSlices.monthStr = <<>>
           => ret.year = YearSliceValue + 1 /\ ret.month = 0 /\ ret.day = 1
         /\ (month >= 1 /\ month <= 11)
           => ret.year = YearSliceValue /\ ret.month = month /\ ret.day = 1

\* C16 as stated: every non-null result of parseSimplifiedDate has year # 0,
\* month in [0, 11], day in [1, 31] and hour in [0, 23].
C16_ComponentsWithinCalendar ==
  (Returned("parseSimplifiedDate") /\ ret.k = "components") =>
    /\ ret.year # 0
    /\ ret.month \in 0..11
    /\ ret.day \in 1..31
    /\ ret.hour \in 0..23

-----------------------------------------------------------------------------
(* Properties of buildTimelineDate, validateTimelineType and setDefaultArgs *)
(* (checked under SpecUtils)                                                *)

WithinBounds(c) ==
  /\ c.k = "components"
  /\ c.year # 0
  /\ c.month \in 0..11
  /\ c.day \in 1..31
  /\ c.hour \in 0..23

\* C17: buildTimelineDate returns null for a null input and for components
\* with year = 0, month outside [0, 11], day outside [1, 31] or hour outside
\* [0, 23].
C17_OutOfBoundsGivesNull ==
  (Returned("buildTimelineDate") /\ ~WithinBounds(call.dateResult)) => ret = NullDate

\* the case of C17: an hour of 24 with everything else within bounds
C17_Witness ==
  /\ Returned("buildTimelineDate")
  /\ call.dateResult = Components(2025, 0, 1, 24, "")
  /\ ret = NullDate

\* C18 as stated: for every components value within the bounds
\* buildTimelineDate returns a non-null instant, in both construction
\* strategies, a day beyond the length of the month included.
C18_WithinBoundsGivesInstant ==
  (Returned("buildTimelineDate") /\ WithinBounds(call.dateResult)) => IsValid(ret)

\* C19: validateTimelineType returns one of the four types for every input:
\* the input less one leading 'vis-' when that is one of the four, 'box' for
\* every other value.
C19_TypeAlwaysValid ==
  Returned("validateTimelineType") =>
    /\ ret \in validTypes
    /\ IF call.type.k = "string" /\ Str(StripVisPrefix(call.type.s)) \in validTypes
         THEN ret = Str(StripVisPrefix(call.type.s))
         ELSE ret = BoxType

\* the case of C19: 'vis-point' gives 'point'
C19_Witness ==
  /\ Returned("validateTimelineType")
  /\ call.type = Str(<<"v", "i", "s", "-", "p", "o", "i", "n", "t">>)
  /\ ret = PointType

\* C20 as stated: for every config with positive widths and every current
\* year the four default bounds are 1 January of max(1900, currentYear - 50),
\* currentYear + 50, max(1800, currentYear - 100) and currentYear + 100.
C20_DefaultBoundsFirstOfJanuary ==
  Returned("setDefaultArgs") =>
    /\ ret.startDate = NewDate(Max2(1900, currentYear - 50), 0, 1, 0)
    /\ ret.endDate = NewDate(currentYear + 50, 0, 1, 0)
    /\ ret.minDate = NewDate(Max2(1800, currentYear - 100), 0, 1, 0)
    /\ ret.maxDate = NewDate(currentYear + 100, 0, 1, 0)

-----------------------------------------------------------------------------
(* Properties of the Timeline construction and of the post-render check     *)
(* (checked under Spec)                                                     *)

\* C21: when constructing the timeline throws, a fallback timeline is
\* constructed with no items and the static window (2020, 2025, 2000, 2030,
\* zoom 10 to 315360000000000) and a message is shown; when that throws too an
\* error message is shown; the pass returns normally in both cases.
C21_ConstructionFailureContained ==
  /\ pc # "thrown"
  /\ (Len(calls) >= 1 /\ calls[1].threw) =>
       /\ Len(calls) = 2
       /\ calls[2].items = <<>>
       /\ calls[2].options.start = NewDate(2020, 0, 1, 0)
       /\ calls[2].options.end = NewDate(2025, 0, 1, 0)
       /\ calls[2].options.min = NewDate(2000, 0, 1, 0)
       /\ calls[2].options.max = NewDate(2030, 0, 1, 0)
       /\ calls[2].options.zoomMin = FinNum(1, <<1>>, 2)
       /\ calls[2].options.zoomMax = FinNum(1, <<3, 1, 5, 3, 6>>, 15)
       /\ ~calls[2].threw => pc = "fallback" /\ notice = FallbackNotice
       /\ calls[2].threw => pc = "failed" /\ notice = FailedNotice

\* the case of C21: a pass with an item whose construction and fallback
\* construction both threw
C21_Witness ==
  /\ pc = "failed"
  /\ Len(items) >= 1
  /\ Len(calls) = 2 /\ calls[1].threw /\ calls[2].threw
  /\ notice = FailedNotice

ProbePending == \E i \in 1..Len(timers) : timers[i].callback = "probe"

\* C22: the post-render check waits only after a construction that did not
\* throw, runs once, not before 500 ms have passed, changes neither the items
\* nor the groups nor the options handed to the timeline, and nothing it
\* throws gets out of it.
C22_ProbeLeavesTimelineAlone ==
  /\ [](/\ pc # "thrown"
        /\ ProbePending => pc = "rendered" /\ Len(calls) = 1 /\ ~calls[1].threw
        /\ pc = "probed" => ~ProbePending)
  /\ [][(pc' = "probed" /\ pc # "probed") =>
          /\ pc = "rendered"
          /\ clock >= ProbeDelay
          /\ UNCHANGED <<items, groups, options, calls>>
          /\ calls[1].items = items /\ calls[1].groups = groups
          /\ calls[1].options = options]_vars

\* the case of C22: the check has run, 500 ms after a pass that rendered two
\* items in two groups
C22_Witness ==
  /\ pc = "probed"
  /\ clock = ProbeDelay
  /\ Len(items) = 2 /\ Len(groups) = 2

-----------------------------------------------------------------------------
(* Properties of the viewport selection (checked under SpecViewport)        *)

YearWithin(date, lo, hi) == IsValid(date) /\ YearOf(date.t) >= lo /\ YearOf(date.t) <= hi

\* the supplied start and end lie in the year ranges of the default window
SuppliedDefaultYears ==
  /\ YearWithin(args.startDate, currentYear - 60, currentYear - 40)
  /\ YearWithin(args.endDate, currentYear + 40, currentYear + 60)

\* C24: the smart viewport calculator is invoked exactly when the supplied
\* start year is in [currentYear - 60, currentYear - 40] and the supplied end
\* year in [currentYear + 40, currentYear + 60]; when it is not invoked or
\* returns null, the window that enters the sanitizer is the supplied one.
C24_SmartViewportOnlyForDefaultYears ==
  pc = "sanitize" =>
    /\ smart \in {"smart", "null"} <=> SuppliedDefaultYears
    /\ smart \in {"explicit", "null"} =>
         /\ options.start = args.startDate /\ options.end = args.endDate
         /\ options.min = args.minDate /\ options.max = args.maxDate

\* the case of C24: a start in the year currentYear - 60 and an end in the
\* year currentYear + 60, two items at the same instant: invoked, null
C24_Witness ==
  /\ pc = "sanitize"
  /\ smart = "null"
  /\ Len(items) = 2
  /\ args.startDate = NewDate(currentYear - 60, 0, 1, 0)
  /\ args.endDate = NewDate(currentYear + 60, 11, 31, 0)
  /\ options.start = args.startDate

\* C26 as stated: when no smart viewport is applied, the window and the zoom
\* limits setDefaultArgs produced with the default config reach the Timeline
\* constructor unchanged.
C26_DefaultWindowIsFixedPoint ==
  ( /\ Len(calls) >= 1
    /\ args = setDefaultArgs(DefaultDateParsingConfig, currentYear)
    /\ smart # "smart" )
  => calls[1].options = OptionsOfArgs(args)

-----------------------------------------------------------------------------
(* Further properties of the sanitizer (SpecSanitizer) and of the parser    *)
(* (SpecUtils)                                                              *)

YearInSafeRange(date) ==
  IsValid(date) /\ YearOf(date.t) >= 1900 /\ YearOf(date.t) <= 2100

\* C27 as stated: after the sanitizer each of start, end, min and max has a
\* year within [1900, 2100], the repairs of the later steps included.
C27_SanitizedYearsInSafeRange ==
  Sanitized =>
    /\ YearInSafeRange(options.start) /\ YearInSafeRange(options.end)
    /\ YearInSafeRange(options.min) /\ YearInSafeRange(options.max)

\* C28 as stated: the hour of every non-null result of parseSimplifiedDate is
\* the value of the hour slice (0 when it is empty), whatever the minute
\* slice is.
C28_HourIsHourSlice ==
  (Returned("parseSimplifiedDate") /\ ret.k = "components") =>
    ret.hour = ParseIntOrZero(CallSlices.hourStr)

-----------------------------------------------------------------------------
(* Properties of sortTimelineDates (checked under SpecUtils)                *)

\* the date a normalized string stands for
DateOfChars(s) == CHOOSE c \in SortDates : DateChars(c) = s

SignedYear(c) == IF c.negative THEN -c.year ELSE c.year

\* a is not later than b
NotLater(a, b) ==
  \/ SignedYear(a) < SignedYear(b)
  \/ /\ SignedYear(a) = SignedYear(b)
     /\ \/ a.month < b.month
        \/ a.month = b.month /\ a.day < b.day
        \/ a.month = b.month /\ a.day = b.day /\ a.hour <= b.hour

Occurrences(strs, s) == Cardinality({i \in 1..Len(strs) : strs[i] = s})

\* C25 as stated: sortTimelineDates returns a permutation of its input, in
\* ascending chronological order when sortDirection is true, also when the
\* years have different digit counts, and the exact reverse of that when
\* sortDirection is false.
C25_SortedChronologically ==
  Returned("sortTimelineDates") =>
    LET input == call.timelineDates
        ascending == IF call.sortDirection THEN ret.dates ELSE Reverse(ret.dates)
    IN  /\ Len(ret.dates) = Len(input)
        /\ \A i \in 1..Len(input) :
             Occurrences(ret.dates, input[i]) = Occurrences(input, input[i])
        /\ \A i \in 1..(Len(ascending) - 1) :
             NotLater(DateOfChars(ascending[i]), DateOfChars(ascending[i + 1]))
        /\ ~call.sortDirection => ret.dates = Reverse(sortTimelineDates(input, TRUE))

-----------------------------------------------------------------------------
(* Properties of the health checker (checked under SpecHealth)              *)

IsLoopWarning(message) == Includes(message, "infinite loop") /\ Includes(message, "redraw")

\* a warning of infinite loop in redraw has been emitted for horizontal element i
LoopWarningEmittedFor(i) ==
  \E n \in 1..Len(emitted) : emitted[n].element = i /\ IsLoopWarning(emitted[n].message)

ReportsInfiniteLoop(check) ==
  /\ check.hasInfiniteLoop
  /\ check.status = "error"
  /\ Includes(check.issues, "Infinite loop detected in timeline rendering")

\* C23 as stated: when a console warning containing 'infinite loop' and
\* 'redraw' has been emitted for a horizontal timeline, the health check of that
\* timeline returns hasInfiniteLoop = true and status 'error' with the issue
\* 'Infinite loop detected in timeline rendering'.
C23_InfiniteLoopDetected ==
  [][(pc = "page" /\ pc' = "checked") =>
       \A i \in 1..Len(page.horizontal) :
         LoopWarningEmittedFor(i) => ReportsInfiniteLoop(checks'[i])]_vars

\* the severity each issue is recorded with
Severity(status) == IF status = "error" THEN 2 ELSE IF status = "warning" THEN 1 ELSE 0

WarningIssues ==
  {"No timeline items found", "No timeline cards found", "No date headers found",
   "1 broken internal links"}

IssueSeverity(issue) == IF issue \in WarningIssues THEN 1 ELSE 2

RECURSIVE HighestSeverity(_)
HighestSeverity(issues) ==
  IF issues = <<>> THEN 0
  ELSE LET rest == HighestSeverity(Tail(issues))
       IN  IF IssueSeverity(issues[1]) > rest THEN IssueSeverity(issues[1]) ELSE rest

\* C29 as stated: the status a health check returns is the highest severity
\* among the issues it recorded; in particular checkVerticalTimeline returns
\* 'error' whenever it recorded 'No timeline containers found'.
C29_StatusIsHighestSeverity ==
  \A i \in 1..Len(checks) :
    /\ Severity(checks[i].status) = HighestSeverity(checks[i].issues)
    /\ (checks[i].type = "vertical"
          /\ Includes(checks[i].issues, "No timeline containers found"))
         => checks[i].status = "error"

\* C30 as stated: when checkAllTimelines checked two or more horizontal
\* timelines, then after all restore timers have fired console.warn is the
\* function it was before the first check.
C30_ConsoleWarnRestored ==
  (pc = "checked" /\ Len(page.horizontal) >= 2 /\ timers = <<>>)
    => consoleWarn = NativeWarn

=============================================================================
